---- MODULE Spec2Model ----
(***************************************************************************)
(* Model of the Telegram relay bot: bot.py (start-up, the chat handler)    *)
(* and model.py (the completion services, chat_with_llm).                  *)
(*                                                                         *)
(* Texts are sequences of tokens, so that string concatenation (the        *)
(* f-strings of the source) is real concatenation.  Python lists are       *)
(* objects of a heap: a handler holds a reference to a list, and           *)
(* context.chat_data maps the key "history" to such a reference.           *)
(***************************************************************************)
EXTENDS Integers, Sequences, FiniteSets, TLC

\* ------------------------------------------------------------- bounds
MaxUpdates == 4
MaxExchanges == 3

\* ---------------------------------------------------------- constants
\* history[-4:]
HistoryWindow == 4

Chats == {1, 2}
Tasks == 1..MaxUpdates
ListIds == 1..MaxUpdates

\* the text messages the platform delivers: the chat and update.message.text
Updates == {[chat |-> 1, text |-> <<"hi">>], [chat |-> 1, text |-> <<"yo">>], [chat |-> 2, text |-> <<"hi">>]}
\* update.effective_user.first_name: the peer of the (private) chat
first_name(c) == <<"U", c>>
\* what the completion endpoint does with one request: a reply, or a
\* failure (network error, bad status, malformed body) raised as an
\* exception whose str() is the text
Outcomes == {[ok |-> TRUE, text |-> <<"pong">>], [ok |-> FALSE, text |-> <<"timeout">>]}

\* the content of prompts/prompt_1.txt
sys_prompt == <<"SYS">>

Keys == {"TELEGRAM_BOT_TOKEN", "YA_API_KEY", "YA_FOLDER_ID"}
model_required == {"YA_API_KEY", "YA_FOLDER_ID"}
bot_required_none == {}
bot_required == {"TELEGRAM_BOT_TOKEN"}

VARIABLES
    env_file,     \* the .env file: [exists, keys]
    prompt_file,  \* whether prompts/prompt_1.txt can be opened
    boot,         \* position of the start-up code
    registered,   \* the handlers added to the application
    polling,      \* application.run_polling is running
    task,         \* the invocations of the chat handler, in dispatch order
    running,      \* the handler that holds the event loop, 0 when it is free
    chat_data,    \* context.chat_data of each chat: a dict
    heap,         \* the list objects
    ncalls,       \* completion requests issued
    svc           \* a direct call of a service: inputs and result

vars == <<env_file, prompt_file, boot, registered, polling, task, running,
          chat_data, heap, ncalls, svc>>

sysvars == <<env_file, prompt_file, boot, registered, polling, task, running,
             chat_data, heap, ncalls>>

\* ------------------------------------------------------------ helpers
Min(a, b) == IF a <= b THEN a ELSE b

Turn(role, content) == [role |-> role, content |-> content]

\* history[-4:]
Last4_three(history) == IF Len(history) <= HistoryWindow - 1 THEN history ELSE SubSeq(history, Len(history) - HistoryWindow + 2, Len(history))
Last4(history) == IF Len(history) <= HistoryWindow THEN history ELSE SubSeq(history, Len(history) - HistoryWindow + 1, Len(history))

\* the message list both services build
build_messages(prompt, message, history) ==
    <<Turn("system", prompt)>> \o Last4(history) \o <<Turn("user", message)>>

\* LLMService.chat: the request, the returned text, whether an exception
\* leaves the method, the list passed in as the call leaves it, and the
\* number of requests issued
LLMService_chat_raises(message, history, outcome) ==
    [messages |-> build_messages(sys_prompt, message, history),
     raised |-> ~outcome.ok,
     ret |-> outcome.text,
     history |-> history,
     calls |-> 1]
LLMService_chat_retries(message, history, outcome) ==
    [messages |-> build_messages(sys_prompt, message, history),
     raised |-> FALSE,
     ret |-> IF outcome.ok THEN outcome.text ELSE <<"An error occurred: ">> \o outcome.text,
     history |-> history,
     calls |-> IF outcome.ok THEN 1 ELSE 2]
LLMService_chat_appends(message, history, outcome) ==
    [messages |-> build_messages(sys_prompt, message, history),
     raised |-> FALSE,
     ret |-> IF outcome.ok THEN outcome.text ELSE <<"An error occurred: ">> \o outcome.text,
     history |-> Append(history, Turn("user", message)),
     calls |-> 1]
LLMService_chat(message, history, outcome) ==
    [messages |-> build_messages(sys_prompt, message, history),
     raised |-> FALSE,
     ret |-> IF outcome.ok THEN outcome.text ELSE <<"An error occurred: ">> \o outcome.text,
     history |-> history,
     calls |-> 1]

\* OllamaService.chat
OllamaService_chat(message, history, outcome) ==
    [messages |-> build_messages(sys_prompt, message, history),
     raised |-> FALSE,
     ret |-> IF outcome.ok THEN outcome.text ELSE <<"Ollama error: ">> \o outcome.text,
     history |-> history,
     calls |-> 1]

\* llm_1 = LLMService("prompts/prompt_1.txt")
llm_1_chat(message, history, outcome) == LLMService_chat(message, history, outcome)

\* the two appends of chat_with_llm
append_turns_keep4(history, user_message, llm_response) ==
    Append(Append(Last4(history), Turn("user", user_message)), Turn("assistant", llm_response))
append_turns_swapped(history, user_message, llm_response) ==
    Append(Append(history, Turn("assistant", llm_response)), Turn("user", user_message))
append_turns(history, user_message, llm_response) ==
    Append(Append(history, Turn("user", user_message)), Turn("assistant", llm_response))

\* chat_with_llm as one call
chat_with_llm(user_message, history, outcome) ==
    LET r == llm_1_chat(user_message, history, outcome)
    IN  [r EXCEPT !.history = IF r.raised THEN r.history
                              ELSE append_turns(r.history, user_message, r.ret)]

\* f"{user_message}. Username: {user}"
annotate(text, user) == text \o <<". Username: ">> \o user

\* dict.get(key, default)
dict_get(d, key, default) == IF key \in DOMAIN d THEN d[key] ELSE default

\* the [] of chat_data.get("history", []): a new list object at each call
default_list_shared(t) == 1
default_list(t) == t

\* context.chat_data["history"] = history
save_history_forgotten(d, ref) == d
save_history(d, ref) == [history |-> ref]

\* the places of the chat handler where it gives up the event loop
Suspends_at_call(p) == p \in {"call", "await"}
Suspends(p) == p = "await"

\* dotenv.dotenv_values(".env"): the keys of the file, none when it is missing
dotenv_values(f) == IF f.exists THEN f.keys ELSE {}

\* the history stored for chat c
Stored(c) == IF "history" \in DOMAIN chat_data[c] THEN heap[chat_data[c].history] ELSE <<>>

\* --------------------------------------------------------------- Init
NoSvc == [pc |-> "off"]

InitSys ==
    /\ env_file \in {[exists |-> FALSE, keys |-> {}]} \cup {[exists |-> TRUE, keys |-> k] : k \in SUBSET Keys}
    /\ prompt_file \in BOOLEAN
    /\ boot = "import_model"
    /\ registered = {}
    /\ polling = FALSE
    /\ task = <<>>
    /\ running = 0
    /\ chat_data = [c \in Chats |-> <<>>]
    /\ heap = [i \in ListIds |-> <<>>]
    /\ ncalls = 0

Init == InitSys /\ svc = NoSvc

\* ----------------------------------------------------------- start-up
\* model.py 10-17
model_load_env ==
    /\ boot = "import_model"
    /\ boot' = IF model_required \subseteq dotenv_values(env_file) THEN "llm_init" ELSE "fatal"
    /\ UNCHANGED <<env_file, prompt_file, registered, polling, task, running, chat_data, heap, ncalls, svc>>

\* model.py 139: LLMService.__init__ opens the prompt file and builds the client
LLMService_init ==
    /\ boot = "llm_init"
    /\ boot' = IF prompt_file THEN "load_token" ELSE "fatal"
    /\ UNCHANGED <<env_file, prompt_file, registered, polling, task, running, chat_data, heap, ncalls, svc>>

\* bot.py 60-66
bot_load_env ==
    /\ boot = "load_token"
    /\ boot' = IF bot_required \subseteq dotenv_values(env_file) THEN "main" ELSE "fatal"
    /\ UNCHANGED <<env_file, prompt_file, registered, polling, task, running, chat_data, heap, ncalls, svc>>

\* bot.py 96-112
main ==
    /\ boot = "main"
    /\ boot' = "polling"
    /\ registered' = {"start", "chat"}
    /\ polling' = TRUE
    /\ UNCHANGED <<env_file, prompt_file, task, running, chat_data, heap, ncalls, svc>>

\* -------------------------------------------------- the chat handler
\* bot.py 82-88: a text message of chat c is dispatched to chat()
chat_enter(c, text) ==
    /\ polling /\ "chat" \in registered
    /\ running = 0
    /\ Len(task) < MaxUpdates
    /\ LET t == Len(task) + 1
           history == dict_get(chat_data[c], "history", default_list(t))
       IN  /\ task' = Append(task,
                 [chat |-> c, text |-> text, pc |-> "call",
                  user_message |-> annotate(text, first_name(c)),
                  history |-> history,
                  logged |-> heap[history],
                  outcome |-> [ok |-> TRUE, text |-> <<>>],
                  messages |-> <<>>, llm_response |-> <<>>, reply |-> <<>>])
           /\ running' = IF Suspends("call") THEN 0 ELSE t
    /\ UNCHANGED <<env_file, prompt_file, boot, registered, polling, chat_data, heap, ncalls, svc>>

\* model.py 156: llm_1.chat(user_message, history)
chat_call(t, outcome) ==
    /\ t \in 1..Len(task) /\ task[t].pc = "call"
    /\ running \in {0, t}
    /\ LET r == llm_1_chat(task[t].user_message, heap[task[t].history], outcome)
           p == IF r.raised THEN "raised" ELSE "append"
       IN  /\ task' = [task EXCEPT ![t].pc = p, ![t].outcome = outcome,
                                   ![t].messages = r.messages, ![t].llm_response = r.ret]
           /\ heap' = [heap EXCEPT ![task[t].history] = r.history]
           /\ ncalls' = ncalls + r.calls
           /\ running' = IF p = "raised" \/ Suspends(p) THEN 0 ELSE t
    /\ UNCHANGED <<env_file, prompt_file, boot, registered, polling, chat_data, svc>>

\* model.py 157-159
chat_append(t) ==
    /\ t \in 1..Len(task) /\ task[t].pc = "append"
    /\ running \in {0, t}
    /\ heap' = [heap EXCEPT ![task[t].history] =
                   append_turns(@, task[t].user_message, task[t].llm_response)]
    /\ task' = [task EXCEPT ![t].pc = "save"]
    /\ running' = IF Suspends("save") THEN 0 ELSE t
    /\ UNCHANGED <<env_file, prompt_file, boot, registered, polling, chat_data, ncalls, svc>>

\* bot.py 92
chat_save(t) ==
    /\ t \in 1..Len(task) /\ task[t].pc = "save"
    /\ running \in {0, t}
    /\ chat_data' = [chat_data EXCEPT ![task[t].chat] = save_history(@, task[t].history)]
    /\ task' = [task EXCEPT ![t].pc = "send"]
    /\ running' = IF Suspends("send") THEN 0 ELSE t
    /\ UNCHANGED <<env_file, prompt_file, boot, registered, polling, heap, ncalls, svc>>

\* bot.py 93: reply_text(llm_response) is called and awaited
chat_send(t) ==
    /\ t \in 1..Len(task) /\ task[t].pc = "send"
    /\ running \in {0, t}
    /\ task' = [task EXCEPT ![t].pc = "await", ![t].reply = task[t].llm_response]
    /\ running' = IF Suspends("await") THEN 0 ELSE t
    /\ UNCHANGED <<env_file, prompt_file, boot, registered, polling, chat_data, heap, ncalls, svc>>

\* bot.py 93: the reply was delivered, the handler returns
chat_replied(t) ==
    /\ t \in 1..Len(task) /\ task[t].pc = "await"
    /\ running \in {0, t}
    /\ task' = [task EXCEPT ![t].pc = "done"]
    /\ running' = 0
    /\ UNCHANGED <<env_file, prompt_file, boot, registered, polling, chat_data, heap, ncalls, svc>>

\* bot.py 93: sending the reply raised, the handler ends with the exception
chat_reply_failed(t) ==
    /\ t \in 1..Len(task) /\ task[t].pc = "await"
    /\ running \in {0, t}
    /\ task' = [task EXCEPT ![t].pc = "done"]
    /\ running' = 0
    /\ UNCHANGED <<env_file, prompt_file, boot, registered, polling, chat_data, heap, ncalls, svc>>

Next ==
    \/ model_load_env
    \/ LLMService_init
    \/ bot_load_env
    \/ main
    \/ \E u \in Updates : chat_enter(u.chat, u.text)
    \/ \E t \in Tasks, outcome \in Outcomes : chat_call(t, outcome)
    \/ \E t \in Tasks : chat_append(t)
    \/ \E t \in Tasks : chat_save(t)
    \/ \E t \in Tasks : chat_send(t)
    \/ \E t \in Tasks : chat_replied(t)
    \/ \E t \in Tasks : chat_reply_failed(t)

Spec == Init /\ [][Next]_vars

\* ------------------------------------------- direct calls of a service
\* the lists a caller can hold: up to MaxExchanges exchanges, or such a
\* list cut short
UserTexts == {annotate(u.text, first_name(u.chat)) : u \in Updates}
AssistantTexts == {LLMService_chat(<<>>, <<>>, o).ret : o \in Outcomes}
Exchanges == {<<Turn("user", m), Turn("assistant", a)>> : m \in UserTexts, a \in AssistantTexts}

RECURSIVE HistoriesOf(_)
HistoriesOf(k) ==
    IF k = 0 THEN {<<>>}
    ELSE LET P == HistoriesOf(k - 1)
         IN  P \cup {h \o e : h \in {x \in P : Len(x) = 2 * (k - 1)}, e \in Exchanges}

Histories == UNION {{SubSeq(h, 1, j) : j \in 0..Len(h)} : h \in HistoriesOf(MaxExchanges)}

InitSvc ==
    /\ env_file = [exists |-> TRUE, keys |-> Keys]
    /\ prompt_file = TRUE
    /\ boot = "import_model"
    /\ registered = {}
    /\ polling = FALSE
    /\ task = <<>>
    /\ running = 0
    /\ chat_data = [c \in Chats |-> <<>>]
    /\ heap = [i \in ListIds |-> <<>>]
    /\ ncalls = 0
    /\ \E m \in UserTexts, h \in Histories, o \in Outcomes :
           svc = [pc |-> "ready", fn |-> "none", message |-> m, history |-> h, outcome |-> o,
                  result |-> LLMService_chat(<<>>, <<>>, o)]

\* model.py 53-83
call_LLMService ==
    /\ svc.pc = "ready"
    /\ svc' = [svc EXCEPT !.pc = "returned", !.fn = "LLMService.chat",
                          !.result = LLMService_chat(svc.message, svc.history, svc.outcome)]
    /\ UNCHANGED sysvars

\* model.py 108-135
call_OllamaService ==
    /\ svc.pc = "ready"
    /\ svc' = [svc EXCEPT !.pc = "returned", !.fn = "OllamaService.chat",
                          !.result = OllamaService_chat(svc.message, svc.history, svc.outcome)]
    /\ UNCHANGED sysvars

\* model.py 145-159
call_chat_with_llm ==
    /\ svc.pc = "ready"
    /\ svc' = [svc EXCEPT !.pc = "returned", !.fn = "chat_with_llm",
                          !.result = chat_with_llm(svc.message, svc.history, svc.outcome)]
    /\ UNCHANGED sysvars

NextSvc ==
    \/ call_LLMService
    \/ call_OllamaService
    \/ call_chat_with_llm

SpecSvc == InitSvc /\ [][NextSvc]_vars

\* ------------------------------------------------------------- claims
Ended(t) == task[t].pc \in {"await", "done"}

\* the turns of the exchanges of chat c among the first n handlers, in
\* dispatch order
RECURSIVE Exchanged(_, _)
Exchanged(c, n) ==
    IF n = 0 THEN <<>>
    ELSE Exchanged(c, n - 1) \o
         (IF task[n].chat = c /\ Ended(n)
          THEN <<Turn("user", task[n].user_message), Turn("assistant", task[n].llm_response)>>
          ELSE <<>>)

IsPrefix(a, b) == Len(a) <= Len(b) /\ SubSeq(b, 1, Len(a)) = a

\* C1 as stated: once a handler has stored the list back, the stored
\* history is the history it read followed by the user turn whose content
\* is the inbound text M and the assistant turn with the response.
C1_AsStated ==
    \A t \in 1..Len(task) :
        task[t].pc = "send" =>
            Stored(task[t].chat) =
                task[t].logged \o <<Turn("user", task[t].text),
                                    Turn("assistant", task[t].llm_response)>>

\* C1 as amended: once a handler has stored the list back, the stored
\* history is the history it read (empty for a first message) followed by
\* exactly two turns: the user turn whose content is the inbound text M
\* followed by ". Username: " and the sender's first name, then the
\* assistant turn with the response, be it a reply or an error text.
C1_ExchangeAppendsTwo ==
    \A t \in 1..Len(task) :
        task[t].pc = "send" =>
            LET h == Stored(task[t].chat)
                m == task[t].text \o <<". Username: ">> \o first_name(task[t].chat)
                a == IF task[t].outcome.ok THEN task[t].outcome.text
                     ELSE <<"An error occurred: ">> \o task[t].outcome.text
            IN  /\ Len(h) = Len(task[t].logged) + 2
                /\ SubSeq(h, 1, Len(h) - 2) = task[t].logged
                /\ h[Len(h) - 1] = [role |-> "user", content |-> m]
                /\ h[Len(h)] = [role |-> "assistant", content |-> a]
                /\ task[t].llm_response = a

\* a first message whose exchange has completed, and a later exchange of
\* the same chat that failed at the endpoint and has just been stored
C1_Witness ==
    \E s, t \in 1..Len(task) :
        /\ s < t /\ task[s].chat = task[t].chat
        /\ task[s].logged = <<>> /\ Ended(s)
        /\ task[t].pc = "send" /\ ~task[t].outcome.ok /\ Len(task[t].logged) >= 2

\* C2: the message list a service sends is the system turn with the fixed
\* prompt, then the last min(4, len(H)) entries of H in order, then the
\* user turn with M; the same for both services.
C2_RequestShape ==
    (svc.pc = "returned") =>
        LET msgs == svc.result.messages
            H == svc.history
            k == Min(4, Len(H))
        IN  /\ Len(msgs) = k + 2
            /\ msgs[1] = [role |-> "system", content |-> sys_prompt]
            /\ msgs[k + 2] = [role |-> "user", content |-> svc.message]
            /\ \A i \in 1..k : msgs[1 + i] = H[Len(H) - k + i]

\* the local service called with a history longer than the window
C2_Witness ==
    /\ svc.pc = "returned" /\ svc.fn = "OllamaService.chat"
    /\ Len(svc.history) > 4
    /\ Len(svc.result.messages) = 6

\* C3: when the endpoint fails, chat() raises nothing and returns
\* "An error occurred: {details}" (cloud) or "Ollama error: {details}"
\* (local), and chat_with_llm appends that text as the assistant turn after
\* the user turn.
C3_FailureBecomesText ==
    (svc.pc = "returned" /\ ~svc.outcome.ok) =>
        LET r == svc.result
            prefix == IF svc.fn = "OllamaService.chat" THEN <<"Ollama error: ">>
                      ELSE <<"An error occurred: ">>
        IN  /\ ~r.raised
            /\ r.ret = prefix \o svc.outcome.text
            /\ svc.fn = "chat_with_llm" =>
                   r.history = svc.history \o
                       <<[role |-> "user", content |-> svc.message],
                         [role |-> "assistant", content |-> prefix \o svc.outcome.text]>>

\* chat_with_llm has returned from a failed request
C3_Witness ==
    /\ svc.pc = "returned" /\ svc.fn = "chat_with_llm" /\ ~svc.outcome.ok
    /\ Len(svc.result.history) = Len(svc.history) + 2

\* C4: whenever the event loop is free, the stored history of each chat is
\* the turns of all its exchanges, pair by pair in dispatch order (nothing
\* lost, each user turn followed by its assistant turn), and the request of
\* each exchange ends with both turns of the chat's previous exchange
\* before its own user turn.
C4_ExchangesNotInterleaved ==
    /\ running = 0 =>
           \A c \in Chats :
               /\ Stored(c) = Exchanged(c, Len(task))
               /\ Len(Stored(c)) = 2 * Cardinality({t \in 1..Len(task) : task[t].chat = c})
    /\ \A s, t \in 1..Len(task) :
           (/\ s < t /\ task[s].chat = task[t].chat
            /\ \A x \in (s + 1)..(t - 1) : task[x].chat # task[t].chat
            /\ task[t].pc # "call")
           => LET msgs == task[t].messages
                  n == Len(msgs)
              IN  /\ n >= 4
                  /\ msgs[n - 2] = Turn("user", task[s].user_message)
                  /\ msgs[n - 1] = Turn("assistant", task[s].llm_response)

\* two handlers of one chat await their replies at the same time
C4_Witness ==
    \E s, t \in 1..Len(task) :
        /\ s < t /\ task[s].chat = task[t].chat
        /\ task[s].pc = "await" /\ task[t].pc = "await"
        /\ task[s].logged = <<>>
        /\ Len(Stored(task[t].chat)) = 4

\* C5: a call of LLMService.chat or OllamaService.chat leaves the list
\* passed in as it was, on success and on failure.
C5_ChatLeavesHistory ==
    (svc.pc = "returned" /\ svc.fn \in {"LLMService.chat", "OllamaService.chat"}) =>
        svc.result.history = svc.history

\* the cloud service has returned from a failed request on a history
C5_Witness ==
    /\ svc.pc = "returned" /\ svc.fn = "LLMService.chat"
    /\ ~svc.outcome.ok /\ Len(svc.history) >= 2

\* C6: with the configuration file or any of the three keys missing,
\* start-up never gets past the loading of the configuration: no completion
\* request, no handler registered, no polling, no message handled.
C6_MissingConfigIsFatal ==
    (~env_file.exists \/ ~(Keys \subseteq env_file.keys)) =>
        /\ boot \in {"import_model", "llm_init", "load_token", "fatal"}
        /\ ncalls = 0
        /\ registered = {}
        /\ ~polling
        /\ task = <<>>
        /\ ("YA_API_KEY" \notin dotenv_values(env_file) \/ "YA_FOLDER_ID" \notin dotenv_values(env_file))
               => boot \in {"import_model", "fatal"}

\* start-up has ended in the fatal error with only the bot token missing
C6_Witness ==
    /\ boot = "fatal" /\ env_file.exists /\ prompt_file
    /\ env_file.keys = {"YA_API_KEY", "YA_FOLDER_ID"}

C8_HistoryOnlyGrows ==
    [][\A c \in Chats : IsPrefix(Stored(c), Stored(c)')]_vars

\* an exchange has completed on a history longer than the window
C8_Witness ==
    \E t \in 1..Len(task) :
        /\ Ended(t) /\ Len(task[t].logged) > 4
        /\ Len(task[t].messages) = 6
        /\ Len(Stored(task[t].chat)) = Len(task[t].logged) + 2

\* C9: a step of a handler of chat A leaves the history stored for every
\* other chat B unchanged, the list the handler works on is never the list
\* stored for B, and every user turn of the request it sent is a message of
\* A's user.
C9_ChatsIsolated ==
    [][\A t \in 1..Len(task') :
          (t > Len(task) \/ task[t].pc # task'[t].pc) =>
              /\ \A c \in Chats \ {task'[t].chat} :
                     /\ Stored(c)' = Stored(c)
                     /\ "history" \in DOMAIN chat_data'[c]
                            => chat_data'[c].history # task'[t].history
              /\ \A i \in 1..Len(task'[t].messages) :
                     LET m == task'[t].messages[i]
                     IN  m.role = "user" =>
                             SubSeq(m.content, Len(m.content) - 1, Len(m.content))
                                 = first_name(task'[t].chat)]_vars

\* both chats have a stored history after first messages
C9_Witness ==
    /\ \A c \in Chats : Len(Stored(c)) >= 2
    /\ \E s, t \in 1..Len(task) :
           /\ task[s].chat # task[t].chat
           /\ task[s].logged = <<>> /\ task[t].logged = <<>>
           /\ Ended(s) /\ Ended(t)

\* C10: when reply_text is called, the stored history of the chat ends
\* with the user turn and the assistant turn of this exchange and the text
\* sent is the content of that last turn; when the handler ends, the reply
\* delivered or failed, the two turns are in the stored history.
C10_ReplyAfterStore ==
    [][\A t \in 1..Len(task) :
          /\ (task[t].pc = "send" /\ task'[t].pc = "await") =>
                 LET h == Stored(task[t].chat)
                 IN  /\ Len(h) >= 2
                     /\ h[Len(h) - 1] = Turn("user", task[t].user_message)
                     /\ h[Len(h)].role = "assistant"
                     /\ h[Len(h)].content = task'[t].reply
          /\ (task[t].pc = "await" /\ task'[t].pc = "done") =>
                 LET h == Stored(task[t].chat)'
                 IN  \E i \in 1..(Len(h) - 1) :
                         /\ h[i] = Turn("user", task[t].user_message)
                         /\ h[i + 1] = Turn("assistant", task[t].reply)]_vars

\* a handler has ended after the reply of a failed request
C10_Witness ==
    \E t \in 1..Len(task) :
        /\ task[t].pc = "done" /\ ~task[t].outcome.ok
        /\ task[t].reply = <<"An error occurred: ">> \o task[t].outcome.text
        /\ Len(task[t].logged) >= 2

====
